---- MODULE Spec2Model ----
(***************************************************************************)
(* LessonPlanner-AI, src/app.py: the chapter table (chapters.db), the      *)
(* interpretation of the LLM's table-of-contents response, the page-offset *)
(* shift and the font-size heading extraction.                             *)
(*                                                                         *)
(* Python values:  an optional integer (int or None, SQL INTEGER or NULL)  *)
(* is a sequence of length 0 (None) or 1 (<<n>>); a JSON object is a       *)
(* record whose fields are its keys; a list is a sequence.  The LLM        *)
(* response is a sequence of lexical tokens.                               *)
(***************************************************************************)
EXTENDS Integers, Sequences, FiniteSets, TLC

VARIABLES
    db,             \* rows of table chapters in chapters.db (committed state)
    before,         \* rows of the table when the last operation began
    leaked,         \* a connection dropped with its transaction open is still
                    \* alive (not yet finalized) and holds the write lock
    op,             \* the last operation that ran
    raised,         \* the exception that ended it, or "none"
    chapters,       \* list handed to save_chapters_to_db / returned by detect_toc
    loaded,         \* list returned by the last get_chapters_from_db
    response,       \* response.content of the last llm.invoke in detect_toc
    errors,         \* st.error messages of the last operation
    pdf,            \* the uploaded document (pdf_bytes), as pages of blocks
    extract_args,   \* <<start_page, end_page, first_chapter_first_page>> of the
                    \* last extract_chapter call, or << >>
    page_range,     \* <<start_page, end_page>> after the adjustment, or << >>
    selected_sizes, \* selected_sizes at the end of extract_chapter
    total_words,    \* total_words at the end of extract_chapter
    headings        \* the texts joined by extract_chapter's return

vars == <<db, before, leaked, op, raised, chapters, loaded, response, errors, pdf,
          extract_args, page_range, selected_sizes, total_words, headings>>

-----------------------------------------------------------------------------
(* Bounds *)

MaxChapters == 2

MaxRespLen == 5

MaxPages == 2

MaxDeclared == 2

-----------------------------------------------------------------------------
(* Python / JSON values *)

None == << >>

Truthy(v) == v # None /\ v[1] # 0

RECURSIVE SeqsUpTo(_, _)
SeqsUpTo(S, n) ==
    IF n = 0 THEN {<< >>}
    ELSE LET shorter == SeqsUpTo(S, n - 1)
         IN  shorter \cup {Append(q, x) : q \in {r \in shorter : Len(r) = n - 1}, x \in S}

\* The JSON objects an LLM response can carry, by token name.
Obj ==
    [A |-> [chapter_number |-> "1", title |-> "Introduction",
            start_page |-> <<1>>, end_page |-> <<10>>],
     Z |-> [chapter_number |-> "0", title |-> "Preface",
            start_page |-> <<0>>, end_page |-> <<5>>],
     N |-> [chapter_number |-> "3", title |-> "Index",
            start_page |-> None, end_page |-> <<30>>],
     K |-> [chapter_number |-> "4", title |-> "Notes",
            start_page |-> <<21>>]]

ObjectTokens == DOMAIN Obj

IsDict(v) == "json" \notin DOMAIN v

JsonArray(items) == [json |-> "array", items |-> items]

ChapterLists ==
    {[i \in 1..Len(names) |-> Obj[names[i]]] : names \in SeqsUpTo(ObjectTokens, MaxChapters)}

-----------------------------------------------------------------------------
(* ChapterStore: save_chapters_to_db, get_chapters_from_db *)

\* A connection dropped without conn.commit(): its pending rows are not
\* visible to other connections and sqlite rolls them back when the connection
\* is finalized; the table keeps its committed rows.
Uncommitted_autocommit(table, pending) == pending

Uncommitted(table, pending) == table

\* The for loop of save_chapters_to_db over the rows inserted so far.
RECURSIVE InsertLoop(_, _)
InsertLoop(pending, chs) ==
    IF chs = << >> THEN [rows |-> pending, exc |-> "none"]
    ELSE LET chapter == Head(chs) IN
         IF ~IsDict(chapter) THEN [rows |-> pending, exc |-> "TypeError"]
         ELSE IF "start_page" \notin DOMAIN chapter \/ "end_page" \notin DOMAIN chapter
              THEN [rows |-> pending, exc |-> "KeyError"]
         ELSE IF chapter.start_page # None /\ chapter.end_page # None
              THEN IF "chapter_number" \notin DOMAIN chapter \/ "title" \notin DOMAIN chapter
                   THEN [rows |-> pending, exc |-> "KeyError"]
                   ELSE InsertLoop(Append(pending, <<chapter.chapter_number, chapter.title,
                                                     chapter.start_page, chapter.end_page>>),
                                   Tail(chs))
         ELSE InsertLoop(pending, Tail(chs))

save_chapters_to_db_nodelete(table, locked, chs) ==
    IF locked THEN [db |-> table, exc |-> "OperationalError", leaked |-> TRUE]
    ELSE LET r == InsertLoop(table, chs)
         IN  IF r.exc = "none" THEN [db |-> r.rows, exc |-> "none", leaked |-> FALSE]
             ELSE [db |-> Uncommitted(table, r.rows), exc |-> r.exc, leaked |-> TRUE]

\* DELETE FROM chapters, the inserts, then conn.commit() and conn.close().
\* While another connection holds the write lock the DELETE times out with
\* "database is locked".  An exception in the loop leaves the function with
\* the transaction open and the connection neither committed nor closed.
save_chapters_to_db(table, locked, chs) ==
    IF locked THEN [db |-> table, exc |-> "OperationalError", leaked |-> TRUE]
    ELSE LET r == InsertLoop(<< >>, chs)
         IN  IF r.exc = "none" THEN [db |-> r.rows, exc |-> "none", leaked |-> FALSE]
             ELSE [db |-> Uncommitted(table, r.rows), exc |-> r.exc, leaked |-> TRUE]

\* SELECT * in rowid order; "int(row[k]) if row[k] else None".
get_chapters_from_db(table) ==
    [i \in 1..Len(table) |->
        [chapter_number |-> table[i][1],
         title          |-> table[i][2],
         start_page     |-> IF Truthy(table[i][3]) THEN table[i][3] ELSE None,
         end_page       |-> IF Truthy(table[i][4]) THEN table[i][4] ELSE None]]

get_first_chapter_start_page_nodefault(table) ==
    LET chs == get_chapters_from_db(table)
    IN  IF chs # << >> THEN chs[1].start_page ELSE None

get_first_chapter_start_page(table) ==
    LET chs == get_chapters_from_db(table)
    IN  IF chs # << >> THEN chs[1].start_page ELSE <<1>>

-----------------------------------------------------------------------------
(* TocPromptInterpreter: detect_toc *)

Whitespace == {" "}

\* response.content.strip() is empty
IsBlank(content) == \A i \in 1..Len(content) : content[i] \in Whitespace

\* re.search(r"\[.*\]", content, re.DOTALL): leftmost "[", then greedily to
\* the last "]" after it; << >> when nothing matches.
re_search_anchored(content) ==
    IF content = << >> \/ content[1] # "[" THEN << >>
    ELSE LET closes == {j \in 2..Len(content) : content[j] = "]"}
         IN  IF closes = {} THEN << >>
             ELSE LET last == CHOOSE j \in closes : \A k \in closes : j >= k
                  IN  SubSeq(content, 1, last)

re_search(content) ==
    LET opens == {i \in 1..Len(content) : content[i] = "["}
    IN  IF opens = {} THEN << >>
        ELSE LET first  == CHOOSE i \in opens : \A j \in opens : i <= j
                 closes == {j \in first + 1..Len(content) : content[j] = "]"}
             IN  IF closes = {} THEN << >>
                 ELSE LET last == CHOOSE j \in closes : \A k \in closes : j >= k
                      IN  SubSeq(content, first, last)

RECURSIVE SkipWs(_)
SkipWs(toks) ==
    IF toks # << >> /\ Head(toks) \in Whitespace THEN SkipWs(Tail(toks)) ELSE toks

ParseFail == [ok |-> FALSE]

\* json.loads on the token level: a value is an object token or an array of
\* values separated by commas; anything else is a JSONDecodeError.
RECURSIVE ParseValue(_), ParseItems(_, _)
ParseValue(toks) ==
    LET u == SkipWs(toks) IN
    IF u = << >> THEN ParseFail
    ELSE IF Head(u) \in ObjectTokens
         THEN [ok |-> TRUE, val |-> Obj[Head(u)], rest |-> Tail(u)]
    ELSE IF Head(u) = "["
         THEN LET v == SkipWs(Tail(u)) IN
              IF v # << >> /\ Head(v) = "]"
              THEN [ok |-> TRUE, val |-> JsonArray(<< >>), rest |-> Tail(v)]
              ELSE ParseItems(v, << >>)
    ELSE ParseFail

ParseItems(toks, acc) ==
    LET r == ParseValue(toks) IN
    IF ~r.ok THEN ParseFail
    ELSE LET u == SkipWs(r.rest) IN
         IF u = << >> THEN ParseFail
         ELSE IF Head(u) = "," THEN ParseItems(Tail(u), Append(acc, r.val))
         ELSE IF Head(u) = "]"
              THEN [ok |-> TRUE, val |-> JsonArray(Append(acc, r.val)), rest |-> Tail(u)]
         ELSE ParseFail

json_loads(toks) ==
    LET r == ParseValue(toks)
    IN  IF r.ok /\ SkipWs(r.rest) = << >> THEN [ok |-> TRUE, val |-> r.val] ELSE ParseFail

ErrEmpty == "Error: Empty response from LLM while detecting TOC."

ErrNoJson == "Error: No valid JSON found in response."

ErrInvalid == "Error: Invalid JSON response from LLM while detecting TOC."

ErrNoChapters == "No chapters found in the extracted text."

detect_toc_noblankcheck(content) ==
    LET match == re_search(content) IN
    IF match # << >>
    THEN LET parsed == json_loads(match)
         IN  IF parsed.ok THEN [ret |-> parsed.val.items, errors |-> << >>]
             ELSE [ret |-> << >>, errors |-> <<ErrInvalid>>]
    ELSE [ret |-> << >>, errors |-> <<ErrNoJson>>]

\* detect_toc from the response on: the value returned and the st.error calls.
detect_toc(content) ==
    IF IsBlank(content) THEN [ret |-> << >>, errors |-> <<ErrEmpty>>]
    ELSE LET match == re_search(content) IN
         IF match # << >>
         THEN LET parsed == json_loads(match)
              IN  IF parsed.ok THEN [ret |-> parsed.val.items, errors |-> << >>]
                  ELSE [ret |-> << >>, errors |-> <<ErrInvalid>>]
         ELSE [ret |-> << >>, errors |-> <<ErrNoJson>>]

-----------------------------------------------------------------------------
(* PDF collaborator: pages of blocks of lines of spans *)

\* len(span["text"].split()) of the span texts used below.
Words == [heading |-> 500, section |-> 1800, body |-> 5000, note |-> 3, link |-> 1]

WordCount(text) == Words[text]

Spans ==
    {[size |-> 20, text |-> "heading"],
     [size |-> 14, text |-> "section"],
     [size |-> 10, text |-> "body"],
     [size |-> 10, text |-> "note", bold |-> TRUE],
     [size |-> 8,  text |-> "link", color |-> 255]}

PlainSpans == {s \in Spans : DOMAIN s = {"size", "text"}}

Line(spans) == [spans |-> spans]

TextBlock(lines) == [type |-> 0, lines |-> lines]

ImageBlock == [type |-> 1]

\* page.get_text("dict")["blocks"] of the pages a document is made of.
PageSet ==
    {<< >>, <<ImageBlock>>}
    \cup {<<TextBlock(<<Line(<<s>>)>>)>> : s \in Spans}
    \cup {<<TextBlock(<<Line(<<s>>)>>), ImageBlock, TextBlock(<<Line(<< >>), Line(<<t>>)>>)>> :
             s \in PlainSpans, t \in Spans}

Docs == SeqsUpTo(PageSet, MaxPages)

SamplePdf ==
    << <<TextBlock(<<Line(<<[size |-> 20, text |-> "heading"]>>)>>), ImageBlock,
         TextBlock(<<Line(<< >>), Line(<<[size |-> 10, text |-> "body"]>>)>>)>>,
       <<TextBlock(<<Line(<<[size |-> 14, text |-> "section"],
                            [size |-> 10, text |-> "note", bold |-> TRUE]>>)>>)>> >>

-----------------------------------------------------------------------------
(* PageOffsetResolver and ChapterBodyExtractor: extract_chapter *)

max_words == 2000

RECURSIVE SpansOfLines(_)
SpansOfLines(lines) ==
    IF lines = << >> THEN << >> ELSE Head(lines).spans \o SpansOfLines(Tail(lines))

RECURSIVE SpansOfBlocks(_)
SpansOfBlocks(blocks) ==
    IF blocks = << >> THEN << >>
    ELSE (IF "lines" \in DOMAIN Head(blocks) THEN SpansOfLines(Head(blocks).lines) ELSE << >>)
         \o SpansOfBlocks(Tail(blocks))

\* The spans the loop nest "for i, page in enumerate(doc): if start_page <=
\* i + 1 <= end_page: for block: if "lines" in block: for line: for span"
\* visits from page number p on, in the order it visits them.
RECURSIVE SpansInRange(_, _, _, _)
SpansInRange(doc, p, start_page, end_page) ==
    IF p > Len(doc) THEN << >>
    ELSE (IF start_page <= p /\ p <= end_page THEN SpansOfBlocks(doc[p]) ELSE << >>)
         \o SpansInRange(doc, p + 1, start_page, end_page)

\* font_sizes[size] = font_sizes.get(size, 0) + len(text.split())
RECURSIVE CountFonts(_, _)
CountFonts(spans, font_sizes) ==
    IF spans = << >> THEN font_sizes
    ELSE LET span == Head(spans)
             n    == WordCount(span.text)
         IN  CountFonts(Tail(spans),
                        IF span.size \in DOMAIN font_sizes
                        THEN [font_sizes EXCEPT ![span.size] = @ + n]
                        ELSE font_sizes @@ (span.size :> n))

\* sorted(font_sizes.items(), key=lambda x: -x[0]), the sizes of the items
RECURSIVE Descending(_)
Descending(sizes) ==
    IF sizes = {} THEN << >>
    ELSE LET m == CHOOSE x \in sizes : \A y \in sizes : x >= y
         IN  <<m>> \o Descending(sizes \ {m})

RECURSIVE SelectLoop_acceptfirst(_, _, _, _)
SelectLoop_acceptfirst(sorted_sizes, font_sizes, selected, total) ==
    IF sorted_sizes = << >> THEN [selected |-> selected, total |-> total]
    ELSE LET size  == Head(sorted_sizes)
             words == font_sizes[size]
         IN  IF total + words <= max_words
             THEN SelectLoop_acceptfirst(Tail(sorted_sizes), font_sizes,
                                         Append(selected, size), total + words)
             ELSE [selected |-> Append(selected, size), total |-> total + words]

\* The loop over sorted_sizes: accept while total_words + words <= max_words.
RECURSIVE SelectLoop(_, _, _, _)
SelectLoop(sorted_sizes, font_sizes, selected, total) ==
    IF sorted_sizes = << >> THEN [selected |-> selected, total |-> total]
    ELSE LET size  == Head(sorted_sizes)
             words == font_sizes[size]
         IN  IF total + words <= max_words
             THEN SelectLoop(Tail(sorted_sizes), font_sizes,
                             Append(selected, size), total + words)
             ELSE [selected |-> selected, total |-> total]

InSeq(x, seq) == \E i \in 1..Len(seq) : seq[i] = x

Emitted_sizeonly(span, selected) == InSeq(span.size, selected)

\* span["size"] in selected_sizes or "color" in span or "bold" in span
Emitted(span, selected) ==
    InSeq(span.size, selected) \/ "color" \in DOMAIN span \/ "bold" \in DOMAIN span

RECURSIVE Collect(_, _)
Collect(spans, selected) ==
    IF spans = << >> THEN << >>
    ELSE (IF Emitted(Head(spans), selected) THEN <<Head(spans).text>> ELSE << >>)
         \o Collect(Tail(spans), selected)

Adjustment(first_chapter_first_page, first_chapter_start_page_doc) ==
    first_chapter_first_page - first_chapter_start_page_doc

NoExtraction(exc) ==
    [exc |-> exc, range |-> << >>, selected |-> << >>, total |-> 0, headings |-> << >>]

\* extract_chapter; start_page and end_page are optional integers (the UI hands
\* over what get_chapters_from_db returned), None in arithmetic is a TypeError.
extract_chapter(doc, table, start_page, end_page, first_chapter_first_page) ==
    LET first_chapter_start_page_doc == get_first_chapter_start_page(table) IN
    IF first_chapter_start_page_doc = None \/ start_page = None \/ end_page = None
    THEN NoExtraction("TypeError")
    ELSE LET adjustment == Adjustment(first_chapter_first_page, first_chapter_start_page_doc[1])
             sp         == start_page[1] + adjustment
             ep         == end_page[1] + adjustment
             visited    == SpansInRange(doc, 1, sp, ep)
             font_sizes == CountFonts(visited, << >>)
             sel        == SelectLoop(Descending(DOMAIN font_sizes), font_sizes, << >>, 0)
         IN  [exc |-> "none", range |-> <<sp, ep>>, selected |-> sel.selected,
              total |-> sel.total, headings |-> Collect(visited, sel.selected)]

-----------------------------------------------------------------------------
(* Operations *)

NoExtract ==
    /\ extract_args' = << >>
    /\ page_range' = << >>
    /\ selected_sizes' = << >>
    /\ total_words' = 0
    /\ headings' = << >>

\* save_chapters_to_db(chapters), called on its own
SaveChaptersToDb ==
    \E chs \in ChapterLists :
        LET s == save_chapters_to_db(db, leaked, chs) IN
        /\ db' = s.db
        /\ leaked' = s.leaked
        /\ raised' = s.exc
        /\ chapters' = chs
        /\ before' = db
        /\ op' = "save"
        /\ errors' = << >>
        /\ loaded' = << >>
        /\ response' = << >>
        /\ NoExtract
        /\ pdf' = pdf

\* get_chapters_from_db(), called on its own
GetChaptersFromDb ==
    /\ loaded' = get_chapters_from_db(db)
    /\ before' = db
    /\ op' = "load"
    /\ raised' = "none"
    /\ errors' = << >>
    /\ chapters' = << >>
    /\ response' = << >>
    /\ NoExtract
    /\ UNCHANGED <<db, leaked, pdf>>

Join(names) ==
    [i \in 1..(IF Len(names) = 0 THEN 0 ELSE 2 * Len(names) - 1) |->
        IF i % 2 = 1 THEN names[(i + 1) \div 2] ELSE ","]

Render(names) == <<"[">> \o Join(names) \o <<"]">>

\* What the LLM may answer in a run of the application.
UIResponses ==
    {<< >>, <<" ">>, <<"txt">>, <<"txt", "[", "txt", "]">>, <<"[", "A", ",">>}
    \cup {<<"txt", " ">> \o Render(names) \o <<" ", "txt">> :
             names \in SeqsUpTo(ObjectTokens, MaxChapters)}

DetectTheIndex_alwayssave ==
    \E content \in UIResponses :
        LET r == detect_toc(content)
            s == save_chapters_to_db(db, leaked, r.ret)
        IN  /\ response' = content
            /\ chapters' = r.ret
            /\ db' = s.db
            /\ leaked' = s.leaked
            /\ raised' = s.exc
            /\ errors' = r.errors
            /\ loaded' = IF s.exc = "none" THEN get_chapters_from_db(s.db) ELSE << >>
            /\ before' = db
            /\ op' = "detect"
            /\ NoExtract
            /\ pdf' = pdf

\* A script run with the button "Detect the Index" pressed, up to the
\* get_chapters_from_db() that follows the handler.
DetectTheIndex ==
    \E content \in UIResponses :
        LET r == detect_toc(content)
            s == save_chapters_to_db(db, leaked, r.ret)
        IN  /\ response' = content
            /\ chapters' = r.ret
            /\ IF r.ret # << >>
               THEN /\ db' = s.db
                    /\ leaked' = s.leaked
                    /\ raised' = s.exc
                    /\ errors' = r.errors
                    /\ loaded' = IF s.exc = "none" THEN get_chapters_from_db(s.db) ELSE << >>
               ELSE /\ db' = db
                    /\ leaked' = leaked
                    /\ raised' = "none"
                    /\ errors' = Append(r.errors, ErrNoChapters)
                    /\ loaded' = get_chapters_from_db(db)
            /\ before' = db
            /\ op' = "detect"
            /\ NoExtract
            /\ pdf' = pdf

SetExtraction(r) ==
    /\ raised' = r.exc
    /\ page_range' = r.range
    /\ selected_sizes' = r.selected
    /\ total_words' = r.total
    /\ headings' = r.headings

\* extract_chapter(pdf_bytes, start_page, end_page, first_chapter_first_page),
\* called on its own with integer pages
ExtractChapter ==
    \E s \in 1..MaxPages, e \in 1..MaxPages, f \in 1..MaxDeclared :
        /\ SetExtraction(extract_chapter(pdf, db, <<s>>, <<e>>, f))
        /\ extract_args' = <<<<s>>, <<e>>, f>>
        /\ before' = db
        /\ op' = "extract"
        /\ errors' = << >>
        /\ chapters' = << >>
        /\ loaded' = << >>
        /\ response' = << >>
        /\ UNCHANGED <<db, leaked, pdf>>

\* A script run with the button "Generate Lesson Plan" pressed: the chapter
\* list is reloaded, one chapter is selected and handed to extract_chapter.
GenerateLessonPlan ==
    LET chs == get_chapters_from_db(db) IN
    /\ chs # << >>
    /\ \E i \in 1..Len(chs), f \in 1..MaxDeclared :
        /\ SetExtraction(extract_chapter(pdf, db, chs[i].start_page, chs[i].end_page, f))
        /\ extract_args' = <<chs[i].start_page, chs[i].end_page, f>>
    /\ loaded' = chs
    /\ before' = db
    /\ op' = "generate"
    /\ errors' = << >>
    /\ chapters' = << >>
    /\ response' = << >>
    /\ UNCHANGED <<db, leaked, pdf>>

\* Python's garbage collector finalizes the dropped connection: sqlite rolls
\* its open transaction back and the write lock is released.
FinalizeConnection ==
    /\ leaked
    /\ leaked' = FALSE
    /\ db' = Uncommitted(db, << >>)
    /\ before' = db
    /\ op' = "finalize"
    /\ raised' = "none"
    /\ errors' = << >>
    /\ chapters' = << >>
    /\ loaded' = << >>
    /\ response' = << >>
    /\ NoExtract
    /\ pdf' = pdf

Init ==
    /\ db = << >>
    /\ before = << >>
    /\ leaked = FALSE
    /\ op = "init"
    /\ raised = "none"
    /\ chapters = << >>
    /\ loaded = << >>
    /\ response = << >>
    /\ errors = << >>
    /\ pdf = SamplePdf
    /\ extract_args = << >>
    /\ page_range = << >>
    /\ selected_sizes = << >>
    /\ total_words = 0
    /\ headings = << >>

Next ==
    \/ SaveChaptersToDb
    \/ GetChaptersFromDb
    \/ DetectTheIndex
    \/ ExtractChapter
    \/ GenerateLessonPlan
    \/ FinalizeConnection

Spec == Init /\ [][Next]_vars

-----------------------------------------------------------------------------
(* detect_toc on its own, over every response of bounded length *)

TocAlphabet == {"[", "]", ",", " ", "txt", "A", "Z"}

InitToc ==
    /\ response \in SeqsUpTo(TocAlphabet, MaxRespLen)
    /\ db = << >>
    /\ before = << >>
    /\ leaked = FALSE
    /\ op = "init"
    /\ raised = "none"
    /\ chapters = << >>
    /\ loaded = << >>
    /\ errors = << >>
    /\ pdf = SamplePdf
    /\ extract_args = << >>
    /\ page_range = << >>
    /\ selected_sizes = << >>
    /\ total_words = 0
    /\ headings = << >>

DetectToc ==
    LET r == detect_toc(response) IN
    /\ chapters' = r.ret
    /\ errors' = r.errors
    /\ raised' = "none"
    /\ op' = "detect_toc"
    /\ UNCHANGED <<db, before, leaked, loaded, response, pdf, extract_args, page_range,
                   selected_sizes, total_words, headings>>

NextToc == DetectToc

SpecToc == InitToc /\ [][NextToc]_vars

-----------------------------------------------------------------------------
(* extract_chapter on its own, over every document of bounded size *)

InitExtract ==
    /\ pdf \in Docs
    /\ db = save_chapters_to_db(<< >>, FALSE, <<Obj["A"]>>).db
    /\ before = << >>
    /\ leaked = FALSE
    /\ op = "init"
    /\ raised = "none"
    /\ chapters = << >>
    /\ loaded = << >>
    /\ response = << >>
    /\ errors = << >>
    /\ extract_args = << >>
    /\ page_range = << >>
    /\ selected_sizes = << >>
    /\ total_words = 0
    /\ headings = << >>

NextExtract == op = "init" /\ ExtractChapter

SpecExtract == InitExtract /\ [][NextExtract]_vars

-----------------------------------------------------------------------------
(* Properties of the chapter store *)

HasBothPages(c) ==
    /\ "start_page" \in DOMAIN c /\ "end_page" \in DOMAIN c
    /\ c.start_page # None /\ c.end_page # None

\* The records of a list that carry both page bounds, in the list's order.
Kept(chs) == SelectSeq(chs, HasBothPages)

StoredRows(chs) ==
    [i \in 1..Len(Kept(chs)) |->
        <<Kept(chs)[i].chapter_number, Kept(chs)[i].title,
          Kept(chs)[i].start_page, Kept(chs)[i].end_page>>]

ReadBack(bound) == IF bound = <<0>> THEN None ELSE bound

NoZeroBound(chs) ==
    \A i \in 1..Len(chs) :
        \A k \in DOMAIN chs[i] \cap {"start_page", "end_page"} : chs[i][k] # <<0>>

\* C1 as claimed: after a replace_all call, load_all returns exactly the
\* records passed to that call (stated for calls that completed and whose
\* records have no page bound 0, the case of C10).
C1_Original ==
    (op = "save" /\ raised = "none" /\ NoZeroBound(chapters))
        => get_chapters_from_db(db) = chapters

\* C1 as amended: after a replace_all call that completed, load_all returns,
\* in the call's order, one record per record of that call that has both page
\* bounds (the others are dropped), with its chapter_number and title and its
\* page bounds, a bound of 0 read back as absent; nothing of an earlier call
\* remains.  A call that raised leaves the earlier contents.
C1_ReplaceAll ==
    op = "save" =>
        LET got == get_chapters_from_db(db) IN
        IF raised = "none"
        THEN /\ Len(got) = Len(Kept(chapters))
             /\ \A i \in 1..Len(got) :
                    /\ got[i].chapter_number = Kept(chapters)[i].chapter_number
                    /\ got[i].title = Kept(chapters)[i].title
                    /\ got[i].start_page = ReadBack(Kept(chapters)[i].start_page)
                    /\ got[i].end_page = ReadBack(Kept(chapters)[i].end_page)
        ELSE got = get_chapters_from_db(before)

\* replace_all([A, Z]) then replace_all([A]): load_all() is [A].
C1_Witness ==
    /\ op = "save" /\ raised = "none"
    /\ Len(before) = 2
    /\ chapters = <<Obj["A"]>>
    /\ get_chapters_from_db(db) = chapters

\* C10 as claimed: every record load_all returns has both page bounds present
\* and equal to the integers handed to replace_all, 0 included.
C10_Original ==
    (op = "save" /\ raised = "none") =>
        LET got == get_chapters_from_db(db) IN
        /\ Len(got) = Len(Kept(chapters))
        /\ \A i \in 1..Len(got) :
               /\ got[i].start_page # None /\ got[i].start_page = Kept(chapters)[i].start_page
               /\ got[i].end_page # None /\ got[i].end_page = Kept(chapters)[i].end_page

\* C8: a replace_all that raises part-way leaves the table with the complete
\* previous set; after any replace_all the table holds the complete previous
\* set or the complete new set, and finalizing the dropped connection later
\* does not change it.
C8_AllOrNothing ==
    /\ op \in {"save", "detect"} =>
           /\ raised # "none" => db = before
           /\ db = before \/ (raised = "none" /\ db = StoredRows(chapters))
    /\ op = "finalize" => db = before

\* replace_all([A, K]) on a non-empty table: A was inserted, K raised KeyError.
C8_Witness ==
    /\ op = "save" /\ raised = "KeyError" /\ leaked
    /\ before # << >>
    /\ Len(chapters) = 2 /\ chapters[1] = Obj["A"]
    /\ before # StoredRows(<<Obj["A"]>>)
    /\ db = before

\* C7 as claimed: after every detection run, failed ones included, the table
\* holds the new run's records and nothing of an earlier run.
C7_Original == (op = "detect" /\ raised = "none") => db = StoredRows(chapters)

\* C7 as amended: a detection run whose response yields a non-empty list that
\* is saved without an exception replaces the whole table by that run's
\* records; a run whose response is empty, has no array, is malformed or
\* yields an empty list, or whose save raises, leaves the table as it was.
C7_DetectReplaces ==
    op = "detect" =>
        IF chapters # << >> /\ raised = "none"
        THEN db = StoredRows(chapters)
        ELSE db = before

\* A second run replaced a table of two rows by its single record.
C7_Witness ==
    /\ op = "detect" /\ raised = "none"
    /\ Len(before) = 2
    /\ chapters = <<Obj["A"]>>
    /\ db = StoredRows(chapters)

-----------------------------------------------------------------------------
(* Properties of detect_toc *)

NoWs(toks) == SelectSeq(toks, LAMBDA t : t \notin Whitespace)

\* toks is "[", then objects separated by commas, then "]", whitespace aside.
IsChapterArray(toks) ==
    LET t == NoWs(toks) IN
    /\ Len(toks) >= 2 /\ toks[1] = "[" /\ toks[Len(toks)] = "]"
    /\ Len(t) = 2 \/ Len(t) % 2 = 1
    /\ \A i \in 2..Len(t) - 1 :
           IF i % 2 = 0 THEN t[i] \in ObjectTokens ELSE t[i] = ","

RecordsOf(toks) ==
    LET t == SelectSeq(toks, LAMBDA x : x \in ObjectTokens)
    IN  [i \in 1..Len(t) |-> Obj[t[i]]]

Arrays(content) ==
    {ij \in (1..Len(content)) \X (1..Len(content)) :
        ij[1] < ij[2] /\ IsChapterArray(SubSeq(content, ij[1], ij[2]))}

Has(toks, x) == \E i \in 1..Len(toks) : toks[i] = x

\* C2 as claimed: prose around the one valid array of chapter objects never
\* changes the result, whatever the prose contains.
C2_Original ==
    op = "detect_toc" =>
        \A ij \in Arrays(response) :
            Arrays(response) = {ij} =>
                chapters = RecordsOf(SubSeq(response, ij[1], ij[2]))

\* C2 as amended: when the prose before the array holds no "[" and the prose
\* after it holds no "]", detect_toc returns exactly the array's records and
\* reports no error.
C2_ProseIgnored ==
    op = "detect_toc" =>
        \A ij \in Arrays(response) :
            (/\ ~Has(SubSeq(response, 1, ij[1] - 1), "[")
             /\ ~Has(SubSeq(response, ij[2] + 1, Len(response)), "]"))
            => /\ chapters = RecordsOf(SubSeq(response, ij[1], ij[2]))
               /\ errors = << >>

C2_Witness ==
    /\ op = "detect_toc"
    /\ response = <<"txt", "[", "A", "]", "txt">>
    /\ chapters = <<Obj["A"]>>

\* C3 as claimed: an empty or whitespace-only response makes detect_toc fail
\* with an EmptyResponseError instead of returning a list.
C3_Original ==
    (op = "detect_toc" /\ \A i \in 1..Len(response) : response[i] = " ")
        => raised = "EmptyResponseError"

\* C3 as amended: on an empty or whitespace-only response detect_toc raises
\* nothing; it reports the empty-response error through st.error and returns
\* the empty list.
C3_EmptyResponse ==
    (op = "detect_toc" /\ \A i \in 1..Len(response) : response[i] = " ")
        => /\ raised = "none"
           /\ chapters = << >>
           /\ errors = <<ErrEmpty>>

C3_Witness ==
    /\ op = "detect_toc"
    /\ response = <<" ", " ">>
    /\ chapters = << >>
    /\ errors = <<ErrEmpty>>

-----------------------------------------------------------------------------
(* Properties of extract_chapter *)

\* <<page, block, line, span>> of every span of a document.
Positions(doc) ==
    UNION {UNION {UNION {{<<p, b, l, k>> : k \in 1..Len(doc[p][b].lines[l].spans)} :
                         l \in 1..Len(doc[p][b].lines)} :
                  b \in {x \in 1..Len(doc[p]) : "lines" \in DOMAIN doc[p][x]}} :
           p \in 1..Len(doc)}

SpanAt(doc, pos) == doc[pos[1]][pos[2]].lines[pos[3]].spans[pos[4]]

\* The positions inside the page range the last extraction used.
InRange == {pos \in Positions(pdf) : page_range[1] <= pos[1] /\ pos[1] <= page_range[2]}

RECURSIVE SumWords(_)
SumWords(posns) ==
    IF posns = {} THEN 0
    ELSE LET pos == CHOOSE x \in posns : TRUE
         IN  Words[SpanAt(pdf, pos).text] + SumWords(posns \ {pos})

\* Words per font size over a set of positions: the histogram of pass 1.
Hist(posns) ==
    [z \in {SpanAt(pdf, pos).size : pos \in posns} |->
        SumWords({pos \in posns : SpanAt(pdf, pos).size = z})]

Selected == {selected_sizes[i] : i \in 1..Len(selected_sizes)}

RECURSIVE SumOver(_, _)
SumOver(hist, sizes) ==
    IF sizes = {} THEN 0
    ELSE LET z == CHOOSE x \in sizes : TRUE IN hist[z] + SumOver(hist, sizes \ {z})

IsExample(hist) ==
    /\ DOMAIN hist = {20, 14, 10}
    /\ hist[20] = 500 /\ hist[14] = 1800 /\ hist[10] = 5000

Extracted == op \in {"extract", "generate"} /\ raised = "none"

\* C4 as claimed: accept-then-check; for {20:500, 14:1800, 10:5000} the
\* selected set is {20, 14} with total 2300.
C4_Original ==
    (Extracted /\ IsExample(Hist(InRange))) => (Selected = {20, 14} /\ total_words = 2300)

\* C4 as amended: sizes are accepted in descending order with a
\* check-then-accept policy: a size is accepted only if the running total with
\* its words stays within 2000, and the first size that would take the total
\* past 2000 ends the selection and is not included.  For {20:500, 14:1800,
\* 10:5000} the selected set is {20} with total 500.
C4_CheckThenAccept ==
    Extracted =>
        LET hist  == Hist(InRange)
            sizes == DOMAIN hist
            sel   == Selected
        IN  /\ sel \subseteq sizes
            /\ \A i \in 1..Len(selected_sizes) - 1 : selected_sizes[i] > selected_sizes[i + 1]
            /\ \A z \in sel : \A y \in sizes \ sel : z > y
            /\ total_words = SumOver(hist, sel)
            /\ total_words <= max_words
            /\ \A y \in sizes \ sel :
                   (\A x \in sizes \ sel : y >= x) => total_words + hist[y] > max_words
            /\ IsExample(hist) => (sel = {20} /\ total_words = 500)

C4_Witness ==
    /\ Extracted /\ IsExample(Hist(InRange))
    /\ selected_sizes = <<20>>
    /\ total_words = 500

LexLess(a, b) ==
    \E i \in 1..4 : a[i] < b[i] /\ \A j \in 1..(i - 1) : a[j] = b[j]

RECURSIVE InOrder(_)
InOrder(posns) ==
    IF posns = {} THEN << >>
    ELSE LET m == CHOOSE x \in posns : \A y \in posns \ {x} : LexLess(x, y)
         IN  <<m>> \o InOrder(posns \ {m})

Styled(span) == "bold" \in DOMAIN span \/ "color" \in DOMAIN span

Qualifying(posns, sel) ==
    {pos \in posns : SpanAt(pdf, pos).size \in sel \/ Styled(SpanAt(pdf, pos))}

AnchorAbsent ==
    \/ get_chapters_from_db(db) = << >>
    \/ get_chapters_from_db(db)[1].start_page = None

C9_Original ==
    (op = "extract" /\ db # << >> /\ extract_args[2][1] >= extract_args[1][1]) =>
        LET d == db[1][3][1]
            f == extract_args[3]
        IN  /\ page_range = <<extract_args[1][1] + (f - d), extract_args[2][1] + (f - d)>>
            /\ page_range[1] + (d - f) = extract_args[1][1]
            /\ page_range[2] + (d - f) = extract_args[2][1]
            /\ page_range[2] - page_range[1] = extract_args[2][1] - extract_args[1][1]

====
